---- MODULE Spec2Model ----
(***************************************************************************)
(* A model of the MSCoRe adapter (code/mscore_adapter.py) and of the       *)
(* temporal reasoning agent (code/new_agents/temporal_reasoning_agent.py). *)
(*                                                                         *)
(* Text is modelled character by character: a Python str is a sequence of  *)
(* one-character strings, so that substring tests, regular expressions,    *)
(* int() and the formatting of results are computed, not assumed.  The     *)
(* alphabet is ASCII.  A float confidence is modelled in tenths.           *)
(***************************************************************************)
EXTENDS Integers, Sequences, FiniteSets, TLC

VARIABLES agent,      \* the TemporalReasoningAgent's fields
          examples,   \* the MSCoReAdapter's self.examples
          loaded,     \* history: the records load_data read at construction
          pc,         \* "ready" after construction, "returned" after a call
          call,       \* the call made last: its method and its argument
          previous,   \* history: the method of the call before that one
          given,      \* history: the values the caller wrote into the query text
          out         \* the outcome of that call: its return value or its exception

vars == <<agent, examples, loaded, pc, call, previous, given, out>>

(***************************************************************************)
(* Python str primitives.                                                  *)
(***************************************************************************)
DigitChars == <<"0","1","2","3","4","5","6","7","8","9">>

UpperChars == <<"A","B","C","D","E","F","G","H","I","J","K","L","M",
                "N","O","P","Q","R","S","T","U","V","W","X","Y","Z">>

LowerChars == <<"a","b","c","d","e","f","g","h","i","j","k","l","m",
                "n","o","p","q","r","s","t","u","v","w","x","y","z">>

Range(f) == {f[i] : i \in DOMAIN f}

DigitSet == Range(DigitChars)

WordCharSet == Range(DigitChars) \cup Range(UpperChars) \cup Range(LowerChars) \cup {"_"}

IsDigit(c) == c \in DigitSet

\* \w of the re module: a letter, a digit or the underscore
IsWordChar(c) == c \in WordCharSet

\* \s of the re module
IsSpace(c) == c \in {" ", "\t", "\n", "\r"}

DigitVal(c) == (CHOOSE i \in 1..10 : DigitChars[i] = c) - 1

LowerChar(c) ==
    IF c \in Range(UpperChars)
    THEN LowerChars[CHOOSE i \in 1..26 : UpperChars[i] = c]
    ELSE c

\* str.lower()
Lower(s) == [i \in 1..Len(s) |-> LowerChar(s[i])]

\* s[i:i+len(w)] == w
OccursAt(s, i, w) ==
    /\ i >= 1
    /\ i + Len(w) - 1 <= Len(s)
    /\ \A k \in 1..Len(w) : s[i + k - 1] = w[k]

\* w in s
Contains(s, w) == \E i \in 1..(Len(s) - Len(w) + 1) : OccursAt(s, i, w)

\* any(w in s for w in words)
ContainsAny(s, words) == \E k \in DOMAIN words : Contains(s, words[k])

\* int(s) of a run of decimal digits
RECURSIVE ParseInt(_)
ParseInt(s) ==
    IF Len(s) = 0 THEN 0
    ELSE 10 * ParseInt(SubSeq(s, 1, Len(s) - 1)) + DigitVal(s[Len(s)])

\* str(n) of a natural number
RECURSIVE NatStr(_)
NatStr(n) ==
    IF n < 10 THEN <<DigitChars[n + 1]>>
    ELSE NatStr(n \div 10) \o <<DigitChars[(n % 10) + 1]>>

\* str(n) of an int
IntStr(n) == IF n < 0 THEN <<"-">> \o NatStr(0 - n) ELSE NatStr(n)

\* ", ".join(parts)
RECURSIVE Join(_, _)
Join(parts, sep) ==
    IF Len(parts) = 0 THEN <<>>
    ELSE IF Len(parts) = 1 THEN parts[1]
    ELSE parts[1] \o sep \o Join(Tail(parts), sep)

(***************************************************************************)
(* The words and the messages of the program.                              *)
(***************************************************************************)
MonthNames ==
  <<
    <<"J","a","n","u","a","r","y">>,
    <<"F","e","b","r","u","a","r","y">>,
    <<"M","a","r","c","h">>,
    <<"A","p","r","i","l">>,
    <<"M","a","y">>,
    <<"J","u","n","e">>,
    <<"J","u","l","y">>,
    <<"A","u","g","u","s","t">>,
    <<"S","e","p","t","e","m","b","e","r">>,
    <<"O","c","t","o","b","e","r">>,
    <<"N","o","v","e","m","b","e","r">>,
    <<"D","e","c","e","m","b","e","r">>
  >>

WeekdayNames ==
  <<
    <<"M","o","n","d","a","y">>,
    <<"T","u","e","s","d","a","y">>,
    <<"W","e","d","n","e","s","d","a","y">>,
    <<"T","h","u","r","s","d","a","y">>,
    <<"F","r","i","d","a","y">>,
    <<"S","a","t","u","r","d","a","y">>,
    <<"S","u","n","d","a","y">>
  >>

AgeWords ==
  <<
    <<"a","g","e">>,
    <<"b","o","r","n">>,
    <<"b","i","r","t","h">>
  >>

ForwardWords ==
  <<
    <<"l","a","t","e","r">>,
    <<"a","f","t","e","r">>,
    <<"n","e","x","t">>,
    <<"a","d","d">>
  >>

BackwardWords ==
  <<
    <<"b","e","f","o","r","e">>,
    <<"a","g","o">>,
    <<"s","u","b","t","r","a","c","t">>
  >>

IntervalWords ==
  <<
    <<"b","e","t","w","e","e","n">>,
    <<"i","n","t","e","r","v","a","l">>,
    <<"d","u","r","a","t","i","o","n">>
  >>

WeekdayWords ==
  <<
    <<"d","a","y"," ","o","f"," ","w","e","e","k">>,
    <<"w","e","e","k","d","a","y">>
  >>

LeapWords ==
  <<
    <<"l","e","a","p"," ","y","e","a","r">>
  >>

ConfidencePatterns ==
  <<
    <<"y","e","a","r">>,
    <<"m","o","n","t","h">>,
    <<"d","a","y">>,
    <<"M","o","n","d","a","y">>,
    <<"T","u","e","s","d","a","y">>
  >>

ZeroConfidenceMarks ==
  <<
    <<"E","r","r","o","r">>,
    <<"C","o","u","l","d"," ","n","o","t">>
  >>

MsgErrorPrefix == <<"E","r","r","o","r"," ","i","n"," ","t","e","m","p","o","r","a","l"," ","o","p","e","r","a","t","i","o","n",":"," ">>

MsgNoAgeDates == <<"C","o","u","l","d"," ","n","o","t"," ","e","x","t","r","a","c","t"," ","d","a","t","e","s"," ","f","o","r"," ","a","g","e"," ","c","a","l","c","u","l","a","t","i","o","n">>

MsgNoDate == <<"N","o"," ","d","a","t","e"," ","f","o","u","n","d"," ","i","n"," ","q","u","e","r","y">>

MsgNoDuration == <<"N","o"," ","d","u","r","a","t","i","o","n"," ","s","p","e","c","i","f","i","e","d">>

MsgNoTwoDates == <<"C","o","u","l","d"," ","n","o","t"," ","e","x","t","r","a","c","t"," ","t","w","o"," ","d","a","t","e","s">>

MsgNoWeekdayDate == <<"C","o","u","l","d"," ","n","o","t"," ","e","x","t","r","a","c","t"," ","d","a","t","e">>

MsgNoYear == <<"C","o","u","l","d"," ","n","o","t"," ","e","x","t","r","a","c","t"," ","y","e","a","r">>

MsgYearRange1 == <<"y","e","a","r"," ">>

MsgYearRange2 == <<" ","i","s"," ","o","u","t"," ","o","f"," ","r","a","n","g","e">>

MsgMonthRange == <<"m","o","n","t","h"," ","m","u","s","t"," ","b","e"," ","i","n"," ","1",".",".","1","2">>

MsgDayRange == <<"d","a","y"," ","i","s"," ","o","u","t"," ","o","f"," ","r","a","n","g","e"," ","f","o","r"," ","m","o","n","t","h">>

MsgDateRange == <<"d","a","t","e"," ","v","a","l","u","e"," ","o","u","t"," ","o","f"," ","r","a","n","g","e">>

MsgDaysMagnitude1 == <<"d","a","y","s","=">>

MsgDaysMagnitude2 == <<";"," ","m","u","s","t"," ","h","a","v","e"," ","m","a","g","n","i","t","u","d","e"," ","<","="," ","9","9","9","9","9","9","9","9","9">>

StrNone == <<"N","o","n","e">>

StrYears == <<" ","y","e","a","r","s">>

StrIs == <<" ","i","s"," ">>

StrLeap == <<"a"," ","l","e","a","p"," ","y","e","a","r">>

StrNotLeap == <<"n","o","t"," ","a"," ","l","e","a","p"," ","y","e","a","r">>

AgentName == <<"T","e","m","p","o","r","a","l","R","e","a","s","o","n","i","n","g","A","g","e","n","t">>

(***************************************************************************)
(* The regular expressions of the agent.  A match is a record with         *)
(* found = TRUE, its groups and the index one past its end.                *)
(***************************************************************************)
NoMatch == [found |-> FALSE]

\* \b at index i of s, between s[i-1] and s[i]
WordBoundary(s, i) ==
    LET before == i > 1 /\ i - 1 <= Len(s) /\ IsWordChar(s[i - 1])
        after  == i >= 1 /\ i <= Len(s) /\ IsWordChar(s[i])
    IN  before # after

\* the number of digits of s from index i on, at most max
RECURSIVE DigitRun(_, _, _)
DigitRun(s, i, max) ==
    IF max = 0 \/ i > Len(s) \/ ~IsDigit(s[i]) THEN 0
    ELSE 1 + DigitRun(s, i + 1, max - 1)

\* the number of whitespace characters of s from index i on
RECURSIVE SpaceRun(_, _)
SpaceRun(s, i) ==
    IF i > Len(s) \/ ~IsSpace(s[i]) THEN 0 ELSE 1 + SpaceRun(s, i + 1)

IsDateSep(s, i) == i <= Len(s) /\ s[i] \in {"/", "-"}

\* r'\b(\d{1,2})[/-](\d{1,2})[/-](\d{4})\b' matched at index i.  \d{1,2} is
\* greedy and backtracks to one digit when no separator follows two.
DateMatchAt(s, i) ==
    IF ~(i <= Len(s) /\ IsDigit(s[i]) /\ WordBoundary(s, i)) THEN NoMatch
    ELSE
    LET n1s == {n \in 1..DigitRun(s, i, 2) : IsDateSep(s, i + n)}
    IN  IF n1s = {} THEN NoMatch
        ELSE
        LET n1  == CHOOSE n \in n1s : \A o \in n1s : o <= n
            j   == i + n1 + 1
            n2s == {n \in 1..DigitRun(s, j, 2) : IsDateSep(s, j + n)}
        IN  IF n2s = {} THEN NoMatch
            ELSE
            LET n2 == CHOOSE n \in n2s : \A o \in n2s : o <= n
                k  == j + n2 + 1
            IN  IF DigitRun(s, k, 4) = 4 /\ WordBoundary(s, k + 4)
                THEN [found |-> TRUE,
                      g1 |-> SubSeq(s, i, i + n1 - 1),
                      g2 |-> SubSeq(s, j, j + n2 - 1),
                      g3 |-> SubSeq(s, k, k + 3),
                      end |-> k + 4]
                ELSE NoMatch

\* re.search(date_pattern, s) scanning from index pos: the leftmost match
DateSearchFrom(s, pos) ==
    LET starts == {i \in pos..Len(s) : DateMatchAt(s, i).found}
    IN  IF starts = {} THEN NoMatch
        ELSE DateMatchAt(s, CHOOSE i \in starts : \A o \in starts : i <= o)

DateSearch(s) == DateSearchFrom(s, 1)

\* re.findall(date_pattern, s): the successive non-overlapping matches
RECURSIVE DateFindAllFrom(_, _)
DateFindAllFrom(s, pos) ==
    LET m == DateSearchFrom(s, pos)
    IN  IF m.found THEN <<m>> \o DateFindAllFrom(s, m.end) ELSE <<>>

DateFindAll(s) == DateFindAllFrom(s, 1)

UnitWords == << <<"d","a","y">>, <<"m","o","n","t","h">>, <<"y","e","a","r">> >>

\* r'(\d+)\s+(day|month|year)s?' matched at index i: \d+ takes the whole run
\* of digits (a shorter one is followed by a digit, not by whitespace)
DurationMatchAt(s, i) ==
    LET nd == DigitRun(s, i, Len(s))
        ns == SpaceRun(s, i + nd)
        u  == i + nd + ns
        us == {k \in DOMAIN UnitWords : OccursAt(s, u, UnitWords[k])}
    IN  IF nd = 0 \/ ns = 0 \/ us = {} THEN NoMatch
        ELSE [found |-> TRUE,
              g1 |-> SubSeq(s, i, i + nd - 1),
              g2 |-> UnitWords[CHOOSE k \in us : \A o \in us : k <= o]]

\* re.search(duration_pattern, s)
DurationSearch(s) ==
    LET starts == {i \in 1..Len(s) : DurationMatchAt(s, i).found}
    IN  IF starts = {} THEN NoMatch
        ELSE DurationMatchAt(s, CHOOSE i \in starts : \A o \in starts : i <= o)

\* r'\b(\d{4})\b' matched at index i
YearMatchAt(s, i) ==
    IF i <= Len(s) /\ WordBoundary(s, i) /\ DigitRun(s, i, 4) = 4 /\ WordBoundary(s, i + 4)
    THEN [found |-> TRUE, g1 |-> SubSeq(s, i, i + 3)]
    ELSE NoMatch

\* re.search(r'\b(\d{4})\b', s)
YearSearch(s) ==
    LET starts == {i \in 1..Len(s) : YearMatchAt(s, i).found}
    IN  IF starts = {} THEN NoMatch
        ELSE YearMatchAt(s, CHOOSE i \in starts : \A o \in starts : i <= o)

(***************************************************************************)
(* Python values.  A call either returns a value or raises an exception    *)
(* with a message; a result is None or a str.                              *)
(***************************************************************************)
Return(v) == [raised |-> FALSE, value |-> v]

Raise(msg) == [raised |-> TRUE, msg |-> msg]

None == [none |-> TRUE, s |-> <<>>]

Str(s) == [none |-> FALSE, s |-> s]

\* str(result)
PyStr(result) == IF result.none THEN StrNone ELSE result.s

Min(a, b) == IF a <= b THEN a ELSE b

(***************************************************************************)
(* datetime of the standard library: the proleptic Gregorian calendar of   *)
(* the years MINYEAR..MAXYEAR, counted in days from 1 January of year 1.   *)
(***************************************************************************)
MINYEAR == 1

MAXYEAR == 9999

IsLeap(year) == (year % 4 = 0 /\ year % 100 # 0) \/ year % 400 = 0

DaysInMonth(year, month) ==
    IF month = 2 THEN (IF IsLeap(year) THEN 29 ELSE 28)
    ELSE IF month \in {4, 6, 9, 11} THEN 30 ELSE 31

DaysBeforeYear(year) ==
    LET y == year - 1
    IN  y * 365 + (y \div 4) - (y \div 100) + (y \div 400)

RECURSIVE DaysBeforeMonth(_, _)
DaysBeforeMonth(year, month) ==
    IF month = 1 THEN 0
    ELSE DaysBeforeMonth(year, month - 1) + DaysInMonth(year, month - 1)

\* date.toordinal()
ToOrdinal(d) == DaysBeforeYear(d.year) + DaysBeforeMonth(d.year, d.month) + d.day

MaxOrdinal == ToOrdinal([year |-> MAXYEAR, month |-> 12, day |-> 31])

\* date.fromordinal(n), for 1 <= n <= MaxOrdinal
FromOrdinal(n) ==
    LET n0   == n - 1
        n400 == n0 \div 146097
        r400 == n0 % 146097
        n100 == r400 \div 36524
        r100 == r400 % 36524
        n4   == r100 \div 1461
        r4   == r100 % 1461
        n1   == r4 \div 365
        r1   == r4 % 365
        year == n400 * 400 + 1 + n100 * 100 + n4 * 4 + n1
    IN  IF n1 = 4 \/ n100 = 4
        THEN [year |-> year - 1, month |-> 12, day |-> 31]
        ELSE
        LET month == CHOOSE m \in 1..12 :
                        /\ DaysBeforeMonth(year, m) <= r1
                        /\ r1 < DaysBeforeMonth(year, m) + DaysInMonth(year, m)
        IN  [year |-> year, month |-> month, day |-> r1 - DaysBeforeMonth(year, month) + 1]

\* datetime(year, month, day): ValueError on a date that does not exist
datetime(year, month, day) ==
    IF year < MINYEAR \/ year > MAXYEAR
    THEN Raise(MsgYearRange1 \o IntStr(year) \o MsgYearRange2)
    ELSE IF month < 1 \/ month > 12 THEN Raise(MsgMonthRange)
    ELSE IF day < 1 \/ day > DaysInMonth(year, month) THEN Raise(MsgDayRange)
    ELSE Return([year |-> year, month |-> month, day |-> day])

\* base_date + timedelta(days=amount): OverflowError beyond the timedelta
\* or the datetime range
AddDays(base_date, amount) ==
    IF amount > 999999999
    THEN Raise(MsgDaysMagnitude1 \o IntStr(amount) \o MsgDaysMagnitude2)
    ELSE IF ToOrdinal(base_date) + amount > MaxOrdinal THEN Raise(MsgDateRange)
    ELSE Return(FromOrdinal(ToOrdinal(base_date) + amount))

\* abs(date2 - date1).days
AbsDeltaDays(date1, date2) ==
    LET delta == ToOrdinal(date2) - ToOrdinal(date1)
    IN  IF delta < 0 THEN 0 - delta ELSE delta

\* '%d'
TwoDigits(n) == IF n < 10 THEN <<"0">> \o NatStr(n) ELSE NatStr(n)

\* strftime("%B %d, %Y")
StrftimeBdY(d) ==
    MonthNames[d.month] \o <<" ">> \o TwoDigits(d.day) \o <<",", " ">> \o NatStr(d.year)

\* strftime("%A"): date.weekday() is 0 on a Monday
StrftimeA(d) == WeekdayNames[((ToOrdinal(d) + 6) % 7) + 1]

(***************************************************************************)
(* TemporalReasoningAgent.                                                 *)
(***************************************************************************)
SupportedOperations ==
    <<"date_addition", "date_subtraction", "age_calculation",
      "time_interval", "day_of_week", "leap_year_check">>

\* __init__
NewAgent == [name |-> AgentName, supported_operations |-> SupportedOperations]

\* a variant that tests the backward words before the forward words
IdentifyBackwardFirst(query) ==
    LET query_lower == Lower(query)
    IN  IF ContainsAny(query_lower, AgeWords) THEN "age_calculation"
        ELSE IF ContainsAny(query_lower, BackwardWords) THEN "date_subtraction"
        ELSE IF ContainsAny(query_lower, ForwardWords) THEN "date_addition"
        ELSE IF ContainsAny(query_lower, IntervalWords) THEN "time_interval"
        ELSE IF ContainsAny(query_lower, WeekdayWords) THEN "day_of_week"
        ELSE IF ContainsAny(query_lower, LeapWords) THEN "leap_year_check"
        ELSE "date_addition"

_identify_operation(query) ==
    LET query_lower == Lower(query)
    IN  IF ContainsAny(query_lower, AgeWords) THEN "age_calculation"
        ELSE IF ContainsAny(query_lower, ForwardWords) THEN "date_addition"
        ELSE IF ContainsAny(query_lower, BackwardWords) THEN "date_subtraction"
        ELSE IF ContainsAny(query_lower, IntervalWords) THEN "time_interval"
        ELSE IF ContainsAny(query_lower, WeekdayWords) THEN "day_of_week"
        ELSE IF ContainsAny(query_lower, LeapWords) THEN "leap_year_check"
        ELSE "date_addition"

\* datetime(int(m[2]), int(m[1]), int(m[0])) of a match of the date pattern
MatchDate(m) == datetime(ParseInt(m.g3), ParseInt(m.g2), ParseInt(m.g1))

\* a variant that does not look at the birthday
AgeByYears(birth_date, target_date) == target_date.year - birth_date.year

\* the age of _calculate_age
Age(birth_date, target_date) ==
    LET age == target_date.year - birth_date.year
    IN  IF \/ target_date.month < birth_date.month
           \/ (target_date.month = birth_date.month /\ target_date.day < birth_date.day)
        THEN age - 1
        ELSE age

\* the rest of _calculate_age once both dates are constructed, birth first
AgeBetween(birth_date, target_date) ==
    IF birth_date.raised THEN birth_date
    ELSE IF target_date.raised THEN target_date
    ELSE Return(Str(IntStr(Age(birth_date.value, target_date.value)) \o StrYears))

\* _calculate_age from the matches of the date pattern
AgeOfDates(dates) ==
    IF Len(dates) >= 2
    THEN AgeBetween(MatchDate(dates[1]), MatchDate(dates[2]))
    ELSE Return(Str(MsgNoAgeDates))

_calculate_age(query) == AgeOfDates(DateFindAll(query))

\* a variant that keeps the day of the month as it is
AddMonthsUnclamped(year, month, day, amount) ==
    datetime(year + ((month + amount - 1) \div 12), ((month + amount - 1) % 12) + 1, day)

\* the new date of _add_to_date for the units month and year
AddMonths(year, month, day, amount) ==
    datetime(year + ((month + amount - 1) \div 12),
             ((month + amount - 1) % 12) + 1,
             Min(day, 28))

AddYears(year, month, day, amount) == datetime(year + amount, month, Min(day, 28))

\* the "# Add duration" branches of _add_to_date
NewDate(day, month, year, base_date, amount, unit) ==
    IF unit = UnitWords[1] THEN AddDays(base_date, amount)
    ELSE IF unit = UnitWords[2] THEN AddMonths(year, month, day, amount)
    ELSE AddYears(year, month, day, amount)

\* return new_date.strftime("%B %d, %Y")
FormatNewDate(new_date) ==
    IF new_date.raised THEN new_date ELSE Return(Str(StrftimeBdY(new_date.value)))

\* _add_to_date from the construction of base_date on
AddDuration(day, month, year, base_date, duration_match) ==
    IF base_date.raised THEN base_date
    ELSE IF ~duration_match.found THEN Return(Str(MsgNoDuration))
    ELSE FormatNewDate(NewDate(day, month, year, base_date.value,
                               ParseInt(duration_match.g1), duration_match.g2))

\* _add_to_date from "day, month, year = map(int, date_match.groups())" on
AddToBase(query, day, month, year) ==
    AddDuration(day, month, year, datetime(year, month, day), DurationSearch(Lower(query)))

\* _add_to_date from the match of the date pattern
AddToMatch(query, date_match) ==
    IF ~date_match.found THEN Return(Str(MsgNoDate))
    ELSE AddToBase(query, ParseInt(date_match.g1), ParseInt(date_match.g2),
                   ParseInt(date_match.g3))

_add_to_date(query) == AddToMatch(query, DateSearch(query))

\* the body is "pass": the method returns None
_subtract_from_date(query) == Return(None)

\* f"{n} {unit}{'s' if n > 1 else ''}"
Plural(n, unit) == NatStr(n) \o <<" ">> \o unit \o (IF n > 1 THEN <<"s">> ELSE <<>>)

\* parts after "if years > 0" and "if months > 0"
YearMonthParts(years, months) ==
    (IF years > 0 THEN <<Plural(years, UnitWords[3])>> ELSE <<>>)
        \o (IF months > 0 THEN <<Plural(months, UnitWords[2])>> ELSE <<>>)

\* a variant that shows the days only when they are positive
WithPositiveDays(parts, days) ==
    IF days > 0 THEN parts \o <<Plural(days, UnitWords[1])>> ELSE parts

\* parts after "if days > 0 or not parts"
WithDays(parts, days) ==
    IF days > 0 \/ Len(parts) = 0 THEN parts \o <<Plural(days, UnitWords[1])>> ELSE parts

\* the parts of _calculate_interval for a difference of delta_days days
IntervalParts(delta_days) ==
    WithDays(YearMonthParts(delta_days \div 365, (delta_days % 365) \div 30),
             (delta_days % 365) % 30)

\* the rest of _calculate_interval once both dates are constructed
IntervalBetween(date1, date2) ==
    IF date1.raised THEN date1
    ELSE IF date2.raised THEN date2
    ELSE Return(Str(Join(IntervalParts(AbsDeltaDays(date1.value, date2.value)),
                         <<",", " ">>)))

\* _calculate_interval from the matches of the date pattern
IntervalOfDates(dates) ==
    IF Len(dates) >= 2
    THEN IntervalBetween(MatchDate(dates[1]), MatchDate(dates[2]))
    ELSE Return(Str(MsgNoTwoDates))

_calculate_interval(query) == IntervalOfDates(DateFindAll(query))

\* return date_obj.strftime("%A")
FormatWeekday(date_obj) ==
    IF date_obj.raised THEN date_obj ELSE Return(Str(StrftimeA(date_obj.value)))

\* _find_day_of_week from the match of the date pattern
WeekdayOfMatch(date_match) ==
    IF date_match.found THEN FormatWeekday(MatchDate(date_match))
    ELSE Return(Str(MsgNoWeekdayDate))

_find_day_of_week(query) == WeekdayOfMatch(DateSearch(query))

\* f"{year} is {'a leap year' if is_leap else 'not a leap year'}"
LeapSentence(year) ==
    IntStr(year) \o StrIs \o (IF IsLeap(year) THEN StrLeap ELSE StrNotLeap)

\* _check_leap_year from the match of the year pattern
LeapOfMatch(year_match) ==
    IF year_match.found THEN Return(Str(LeapSentence(ParseInt(year_match.g1))))
    ELSE Return(Str(MsgNoYear))

_check_leap_year(query) == LeapOfMatch(YearSearch(query))

\* the dispatch inside the try block of _execute_operation
Dispatch(operation, query) ==
    IF operation = "age_calculation" THEN _calculate_age(query)
    ELSE IF operation = "date_addition" THEN _add_to_date(query)
    ELSE IF operation = "date_subtraction" THEN _subtract_from_date(query)
    ELSE IF operation = "time_interval" THEN _calculate_interval(query)
    ELSE IF operation = "day_of_week" THEN _find_day_of_week(query)
    ELSE IF operation = "leap_year_check" THEN _check_leap_year(query)
    ELSE Return(None)

\* except Exception as e: return f"Error in temporal operation: {str(e)}"
Catch(r) == IF r.raised THEN Return(Str(MsgErrorPrefix \o r.msg)) ELSE r

\* a variant without the except clause
ExecuteUncaught(operation, query) == Dispatch(operation, query)

_execute_operation(operation, query) == Catch(Dispatch(operation, query))

\* re.search(r'\d+', result)
HasDigit(s) == \E i \in 1..Len(s) : IsDigit(s[i])

\* a variant that tests the result for "Error" only
ConfidenceErrorOnly(query, result) ==
    IF result.none \/ Contains(PyStr(result), ZeroConfidenceMarks[1]) THEN 0
    ELSE Min(7 + (IF ContainsAny(result.s, ConfidencePatterns) THEN 2 ELSE 0)
               + (IF HasDigit(result.s) THEN 1 ELSE 0),
             10)

\* the confidence in tenths
_calculate_confidence(query, result) ==
    IF result.none \/ ContainsAny(PyStr(result), ZeroConfidenceMarks) THEN 0
    ELSE Min(7 + (IF ContainsAny(result.s, ConfidencePatterns) THEN 2 ELSE 0)
               + (IF HasDigit(result.s) THEN 1 ELSE 0),
             10)

\* the return statement of process; an exception of _execute_operation
\* would leave process uncaught
Respond(self, query, operation, executed) ==
    IF executed.raised THEN executed
    ELSE Return([agent      |-> self.name,
                 operation  |-> operation,
                 result     |-> executed.value,
                 confidence |-> _calculate_confidence(query, executed.value)])

\* process from "result = self._execute_operation(...)" on
Execute(self, query, operation) ==
    Respond(self, query, operation, _execute_operation(operation, query))

process(self, query) == Execute(self, query, _identify_operation(query))

(***************************************************************************)
(* MSCoReAdapter.  The keyword lists are those of the source over the      *)
(* ASCII alphabet (the two non-ASCII arithmetic signs never occur in it).  *)
(***************************************************************************)
arithmetic_keywords ==
  <<
    <<"+">>,
    <<"-">>,
    <<"*">>,
    <<"/">>,
    <<"p","e","r","c","e","n","t">>,
    <<"p","e","r","c","e","n","t","a","g","e">>,
    <<"s","u","m">>,
    <<"t","o","t","a","l">>,
    <<"a","v","e","r","a","g","e">>
  >>

temporal_keywords ==
  <<
    <<"d","a","y">>,
    <<"m","o","n","t","h">>,
    <<"y","e","a","r">>,
    <<"h","o","u","r">>,
    <<"m","i","n","u","t","e">>,
    <<"s","e","c","o","n","d">>,
    <<"d","a","t","e">>,
    <<"t","i","m","e">>,
    <<"a","g","e">>,
    <<"b","o","r","n">>
  >>

logical_keywords ==
  <<
    <<"i","f">>,
    <<"t","h","e","n">>,
    <<"a","n","d">>,
    <<"o","r">>,
    <<"n","o","t">>,
    <<"a","l","l">>,
    <<"s","o","m","e">>,
    <<"n","o","n","e">>,
    <<"i","m","p","l","i","e","s">>,
    <<"t","h","e","r","e","f","o","r","e">>
  >>

spatial_keywords ==
  <<
    <<"s","q","u","a","r","e">>,
    <<"c","i","r","c","l","e">>,
    <<"t","r","i","a","n","g","l","e">>,
    <<"p","e","r","i","m","e","t","e","r">>,
    <<"a","r","e","a">>,
    <<"v","o","l","u","m","e">>,
    <<"d","i","s","t","a","n","c","e">>,
    <<"a","n","g","l","e">>
  >>

commonsense_keywords ==
  <<
    <<"c","a","p","i","t","a","l">>,
    <<"p","r","e","s","i","d","e","n","t">>,
    <<"c","o","u","n","t","r","y">>,
    <<"c","i","t","y">>,
    <<"p","e","r","s","o","n">>,
    <<"a","n","i","m","a","l">>,
    <<"c","o","l","o","r">>,
    <<"s","h","a","p","e">>
  >>

step_indicators ==
  <<
    <<"t","h","e","n">>,
    <<"a","f","t","e","r">>,
    <<"n","e","x","t">>,
    <<"f","i","r","s","t">>,
    <<"s","e","c","o","n","d">>,
    <<"f","i","n","a","l","l","y">>,
    <<"l","a","t","e","r">>,
    <<"s","u","b","s","e","q","u","e","n","t","l","y">>
  >>


\* MSCoReExample(...) of one item of data['examples'], with the defaults of
\* item.get; an item of a file that loads has the keys id, question, answer
LoadExample(item) ==
    [question_id     |-> item.id,
     question        |-> item.question,
     answer          |-> item.answer,
     reasoning_steps |-> IF "reasoning_steps" \in DOMAIN item
                         THEN item.reasoning_steps ELSE <<>>,
     domain          |-> IF "domain" \in DOMAIN item THEN item.domain ELSE "general",
     difficulty      |-> IF "difficulty" \in DOMAIN item THEN item.difficulty ELSE "medium"]

\* self.examples after load_data on a file with these items
RECURSIVE load_data(_, _)
load_data(self_examples, items) ==
    IF Len(items) = 0 THEN self_examples
    ELSE load_data(Append(self_examples, LoadExample(Head(items))), Tail(items))

convert_to_maas_format(example) ==
    [id              |-> example.question_id,
     question        |-> example.question,
     expected_answer |-> example.answer,
     metadata        |-> [domain          |-> example.domain,
                          difficulty      |-> example.difficulty,
                          source          |-> "MSCoRe",
                          reasoning_steps |-> example.reasoning_steps]]

\* for example in examples: maas_inputs.append(...)
RECURSIVE ConvertLoop(_, _)
ConvertLoop(todo, maas_inputs) ==
    IF Len(todo) = 0 THEN maas_inputs
    ELSE ConvertLoop(Tail(todo), Append(maas_inputs, convert_to_maas_format(Head(todo))))

\* a variant that takes an empty list for no list ("if not examples")
BatchConvertFalsy(self_examples, arg) ==
    ConvertLoop(IF arg.is_none \/ Len(arg.examples) = 0 THEN self_examples ELSE arg.examples,
                <<>>)

\* arg.is_none: the call passes no list (examples=None)
batch_convert(self_examples, arg) ==
    ConvertLoop(IF arg.is_none THEN self_examples ELSE arg.examples, <<>>)

analyze_question_type(question) ==
    [has_arithmetic      |-> ContainsAny(Lower(question), arithmetic_keywords),
     has_temporal        |-> ContainsAny(Lower(question), temporal_keywords),
     has_logical         |-> ContainsAny(Lower(question), logical_keywords),
     has_spatial         |-> ContainsAny(Lower(question), spatial_keywords),
     has_commonsense     |-> ContainsAny(Lower(question), commonsense_keywords),
     requires_multi_step |-> ContainsAny(Lower(question), step_indicators)]

(***************************************************************************)
(* The inputs.                                                             *)
(***************************************************************************)
\* the most tokens of a free-form query
MaxTokens == 3

\* the largest amount of a duration phrase
MaxAmount == 13

\* the most items of the loaded file, and of a list passed to batch_convert
MaxExamples == 2

Question1 == <<"W","h","a","t"," ","i","s"," ","5"," ","+"," ","3","?">>

Question2 == <<"H","o","w"," ","o","l","d"," ","i","n"," ","1","9","9","0","?">>

Question3 == <<"T","h","e","n"," ","w","h","i","c","h"," ","c","i","t","y","?">>

KwAfter == <<"a","f","t","e","r">>

KwBefore == <<"b","e","f","o","r","e">>

KwBorn == <<"b","o","r","n">>

KwBetween == <<"b","e","t","w","e","e","n">>

Vocabulary ==
  {
    <<"B","i","r","t","h","d","a","y">>,
    <<"a","f","t","e","r">>,
    <<"a","g","o">>,
    <<"b","e","t","w","e","e","n">>,
    <<"w","e","e","k","d","a","y">>,
    <<"l","e","a","p"," ","y","e","a","r">>,
    <<"1","5","/","0","3","/","2","0","2","1">>,
    <<"3","1","/","0","2","/","2","0","2","1">>,
    <<"1","-","1","-","1","9","9","0">>,
    <<"1","0"," ","d","a","y","s">>,
    <<"2","0","0","0">>
  }

\* the texts of n tokens separated by single spaces
RECURSIVE TokenTexts(_)
TokenTexts(n) ==
    IF n = 0 THEN {<<>>}
    ELSE IF n = 1 THEN Vocabulary
    ELSE {t \o <<" ">> \o rest : t \in Vocabulary, rest \in TokenTexts(n - 1)}

Queries == UNION {TokenTexts(n) : n \in 0..MaxTokens}

\* the day, month and year numbers a caller writes as a date, valid or not
Days == {1, 15, 28, 29, 31}

Months == {1, 2, 12}

Years == {2020, 2021, 9998, 9999}

Dates == [day : Days, month : Months, year : Years]

\* a year written with four digits
FourDigits(n) ==
    IF n < 10 THEN <<"0", "0", "0">> \o NatStr(n)
    ELSE IF n < 100 THEN <<"0", "0">> \o NatStr(n)
    ELSE IF n < 1000 THEN <<"0">> \o NatStr(n)
    ELSE NatStr(n)

\* a date written dd/mm/yyyy
DateText(d) ==
    TwoDigits(d.day) \o <<"/">> \o TwoDigits(d.month) \o <<"/">> \o FourDigits(d.year)

\* "<amount> <unit>(s) <keyword> <date>", as in "10 days after 15/03/2021"
DurationQuery(amount, unit, keyword, d) ==
    NatStr(amount) \o <<" ">> \o unit \o (IF amount = 1 THEN <<>> ELSE <<"s">>)
        \o <<" ">> \o keyword \o <<" ">> \o DateText(d)

\* "<keyword> <date> <date>", as in "born 01/01/1990 01/01/2020"
TwoDatesQuery(keyword, d1, d2) ==
    keyword \o <<" ">> \o DateText(d1) \o <<" ">> \o DateText(d2)

\* "<keyword> <date>"
OneDateQuery(keyword, d) == keyword \o <<" ">> \o DateText(d)

\* the items of a benchmark file
Items ==
  {
    [id |-> "q1", question |-> Question1, answer |-> "8",
     reasoning_steps |-> <<"add 5 and 3">>, domain |-> "math", difficulty |-> "easy"],
    [id |-> "q2", question |-> Question2, answer |-> "30"],
    [id |-> "q3", question |-> Question3, answer |-> "the lowest", domain |-> "logic"]
  }

RECURSIVE SeqsUpTo(_, _)
SeqsUpTo(S, n) ==
    IF n = 0 THEN {<<>>}
    ELSE SeqsUpTo(S, n - 1) \cup {Append(s, x) : s \in {t \in SeqsUpTo(S, n - 1) : Len(t) = n - 1}, x \in S}

\* the files load_data can read
Files == SeqsUpTo(Items, MaxExamples)

\* the MSCoReExample objects a caller can hold
Examples == {LoadExample(item) : item \in Items}

\* the arguments of batch_convert: no list, or a list of examples
BatchArgs ==
    {[is_none |-> TRUE, examples |-> <<>>]}
        \cup {[is_none |-> FALSE, examples |-> s] : s \in SeqsUpTo(Examples, MaxExamples)}

Questions == {Question1, Question2, Question3}

\* the queries of the calls that follow one another
CallQueries ==
    {KwBefore,
     OneDateQuery(KwBorn, [day |-> 15, month |-> 2, year |-> 2020]),
     DurationQuery(10, UnitWords[1], KwAfter, [day |-> 28, month |-> 12, year |-> 2021])}

(***************************************************************************)
(* The state machine.  Every action is one call, from its arguments to its *)
(* return.                                                                 *)
(***************************************************************************)
NoCall == [method |-> "none"]

FreeForm == [form |-> "free"]

\* agent.process({"query": query})
Process(query, written) ==
    /\ call' = [method |-> "process", query |-> query]
    /\ previous' = call.method
    /\ given' = written
    /\ out' = process(agent, query)
    /\ pc' = "returned"
    /\ UNCHANGED <<agent, examples, loaded>>

\* adapter.convert_to_maas_format(example)
Convert(example) ==
    /\ call' = [method |-> "convert_to_maas_format", example |-> example]
    /\ previous' = call.method
    /\ given' = FreeForm
    /\ out' = Return(convert_to_maas_format(example))
    /\ pc' = "returned"
    /\ UNCHANGED <<agent, examples, loaded>>

\* a variant that takes the records out of self.examples as it converts them
BatchConvertDraining(arg) ==
    /\ call' = [method |-> "batch_convert", arg |-> arg]
    /\ previous' = call.method
    /\ given' = FreeForm
    /\ out' = Return(batch_convert(examples, arg))
    /\ pc' = "returned"
    /\ examples' = IF arg.is_none THEN <<>> ELSE examples
    /\ UNCHANGED <<agent, loaded>>

\* adapter.batch_convert(examples) or adapter.batch_convert()
BatchConvert(arg) ==
    /\ call' = [method |-> "batch_convert", arg |-> arg]
    /\ previous' = call.method
    /\ given' = FreeForm
    /\ out' = Return(batch_convert(examples, arg))
    /\ pc' = "returned"
    /\ UNCHANGED <<agent, examples, loaded>>

\* adapter.analyze_question_type(question)
Analyze(question) ==
    /\ call' = [method |-> "analyze_question_type", question |-> question]
    /\ previous' = call.method
    /\ given' = FreeForm
    /\ out' = Return(analyze_question_type(question))
    /\ pc' = "returned"
    /\ UNCHANGED <<agent, examples, loaded>>

\* the state after TemporalReasoningAgent(), with no adapter in use
Init ==
    /\ agent = NewAgent
    /\ examples = <<>>
    /\ loaded = <<>>
    /\ pc = "ready"
    /\ call = NoCall
    /\ previous = "none"
    /\ given = FreeForm
    /\ out = Return(NoCall)

\* one call of process on a fresh agent with a free-form query
ProcessQuery == pc = "ready" /\ \E query \in Queries : Process(query, FreeForm)

Next == ProcessQuery

Spec == Init /\ [][Next]_vars

\* one call of process with a duration phrase, a forward word and a date
ProcessAddition ==
    /\ pc = "ready"
    /\ \E amount \in 0..MaxAmount, k \in DOMAIN UnitWords, d \in Dates :
          Process(DurationQuery(amount, UnitWords[k], KwAfter, d),
                  [form |-> "duration", keyword |-> KwAfter, amount |-> amount,
                   unit |-> UnitWords[k], date |-> d])

\* one call of process with a duration phrase, a backward word and a date
ProcessSubtraction ==
    /\ pc = "ready"
    /\ \E amount \in 0..MaxAmount, k \in DOMAIN UnitWords, d \in Dates :
          Process(DurationQuery(amount, UnitWords[k], KwBefore, d),
                  [form |-> "duration", keyword |-> KwBefore, amount |-> amount,
                   unit |-> UnitWords[k], date |-> d])

\* one call of process with an age or interval word and two dates
ProcessTwoDates ==
    /\ pc = "ready"
    /\ \E keyword \in {KwBorn, KwBetween}, d1 \in Dates, d2 \in Dates :
          Process(TwoDatesQuery(keyword, d1, d2),
                  [form |-> "two_dates", keyword |-> keyword, first |-> d1, second |-> d2])

\* one call of process with an age or interval word and a single date
ProcessOneDate ==
    /\ pc = "ready"
    /\ \E keyword \in {KwBorn, KwBetween}, d \in Dates :
          Process(OneDateQuery(keyword, d),
                  [form |-> "one_date", keyword |-> keyword, first |-> d])

NextDates == ProcessAddition \/ ProcessSubtraction \/ ProcessTwoDates \/ ProcessOneDate

SpecDates == Init /\ [][NextDates]_vars

\* the state after TemporalReasoningAgent() and MSCoReAdapter(path)
InitCalls ==
    /\ agent = NewAgent
    /\ \E items \in Files : examples = load_data(<<>>, items)
    /\ loaded = examples
    /\ pc = "ready"
    /\ call = NoCall
    /\ previous = "none"
    /\ given = FreeForm
    /\ out = Return(NoCall)

\* any call, after any calls
NextCalls ==
    \/ \E query \in CallQueries : Process(query, FreeForm)
    \/ \E example \in Examples : Convert(example)
    \/ \E arg \in BatchArgs : BatchConvert(arg)
    \/ \E question \in Questions : Analyze(question)

SpecCalls == InitCalls /\ [][NextCalls]_vars

(***************************************************************************)
(* The properties.                                                         *)
(***************************************************************************)
\* a call of process has returned or raised
Processed == pc = "returned" /\ call.method = "process"

\* C1: process never raises on a string query: it returns a record with
\* exactly the fields agent = "TemporalReasoningAgent", operation (one of
\* the six kinds), result (a str or None) and confidence; and when the
\* selected operation raises, the result is a str that starts with "Error in
\* temporal operation".
C1_ProcessNeverRaises ==
    Processed =>
        /\ ~out.raised
        /\ DOMAIN out.value = {"agent", "operation", "result", "confidence"}
        /\ out.value.agent = AgentName
        /\ out.value.operation \in Range(SupportedOperations)
        /\ out.value.result.none \in BOOLEAN
        /\ out.value.confidence \in 0..10
        /\ Dispatch(out.value.operation, call.query).raised =>
              /\ ~out.value.result.none
              /\ OccursAt(out.value.result.s, 1, MsgErrorPrefix)

\* the selected operation raised (31/02/2021 is no date) and process returned
\* the error text
C1_Witness ==
    /\ Processed
    /\ ~out.raised
    /\ Contains(call.query, <<"3","1","/","0","2","/","2","0","2","1">>)
    /\ Dispatch(out.value.operation, call.query).raised
    /\ OccursAt(out.value.result.s, 1, MsgErrorPrefix)
    /\ out.value.confidence = 0

\* the messages of an extraction that found nothing
ExtractionFailures ==
    {MsgNoDate, MsgNoDuration, MsgNoAgeDates, MsgNoTwoDates, MsgNoWeekdayDate, MsgNoYear}

\* C2: a query with no extractable date is answered with confidence 0.0 and a
\* "Could not..." or "No date found" message, and every extraction failure
\* (no date, fewer than two dates, no duration, no year) has confidence 0.0.
\* Stated for the operations that extract a date and are implemented:
\* leap_year_check extracts a year, and date_subtraction is a stub (C7).
C2_FailureHasZeroConfidence ==
    (Processed /\ ~out.raised) =>
        /\ ( /\ ~DateSearch(call.query).found
             /\ out.value.operation \in
                   {"date_addition", "age_calculation", "time_interval", "day_of_week"} )
           => /\ out.value.confidence = 0
              /\ ~out.value.result.none
              /\ \/ Contains(out.value.result.s, <<"C","o","u","l","d"," ","n","o","t">>)
                 \/ Contains(out.value.result.s,
                             <<"N","o"," ","d","a","t","e"," ","f","o","u","n","d">>)
        /\ (~out.value.result.none /\ out.value.result.s \in ExtractionFailures)
           => out.value.confidence = 0

\* the keyword groups in priority order, and the operation of each
KeywordGroups ==
    <<AgeWords, ForwardWords, BackwardWords, IntervalWords, WeekdayWords, LeapWords>>

GroupOperation ==
    <<"age_calculation", "date_addition", "date_subtraction",
      "time_interval", "day_of_week", "leap_year_check">>

\* a keyword of group g occurs in the lower-cased query
Hit(query, g) == ContainsAny(Lower(query), KeywordGroups[g])

\* C3: the operation is selected by a priority chain over the lower-cased
\* query: the first group with a keyword occurring as a substring wins, in the
\* order age > forward > backward > interval > weekday > leap year, and
\* date_addition is the default; the operation reported is the one executed.
C3_PriorityChain ==
    (Processed /\ ~out.raised) =>
        /\ out.value.operation \in Range(SupportedOperations)
        /\ \A g \in 1..6 :
              (Hit(call.query, g) /\ \A h \in 1..(g - 1) : ~Hit(call.query, h))
                  => out.value.operation = GroupOperation[g]
        /\ (\A g \in 1..6 : ~Hit(call.query, g)) => out.value.operation = "date_addition"
        /\ Return(out.value.result) = _execute_operation(out.value.operation, call.query)

\* a backward word and an interval word both occur, and the backward one wins
C3_Witness ==
    /\ Processed
    /\ ~out.raised
    /\ ~Hit(call.query, 1)
    /\ ~Hit(call.query, 2)
    /\ Hit(call.query, 3)
    /\ Hit(call.query, 4)
    /\ out.value.operation = "date_subtraction"

\* the result is None or its str() contains "Error" or "Could not"
ZeroResult(result) ==
    \/ result.none
    \/ Contains(PyStr(result), <<"E","r","r","o","r">>)
    \/ Contains(PyStr(result), <<"C","o","u","l","d"," ","n","o","t">>)

\* C4: the confidence (in tenths) is 0 exactly when the result is None or
\* contains "Error" or "Could not"; otherwise it is 7, plus 2 if the result
\* contains one of year, month, day, Monday, Tuesday, plus 1 if it contains a
\* digit, capped at 10: so it is one of 0, 7, 8, 9, 10.
C4_Confidence ==
    (Processed /\ ~out.raised) =>
        LET result == out.value.result
            bonus  == (IF ContainsAny(result.s, ConfidencePatterns) THEN 2 ELSE 0)
                        + (IF HasDigit(result.s) THEN 1 ELSE 0)
        IN  /\ out.value.confidence = 0 <=> ZeroResult(result)
            /\ ~ZeroResult(result) => out.value.confidence = Min(7 + bonus, 10)
            /\ out.value.confidence \in {0, 7, 8, 9, 10}

\* a result with a weekday word and no digit: 0.7 + 0.2
C4_Witness ==
    /\ Processed
    /\ ~out.raised
    /\ ~ZeroResult(out.value.result)
    /\ ContainsAny(out.value.result.s, ConfidencePatterns)
    /\ ~HasDigit(out.value.result.s)
    /\ out.value.confidence = 9

\* the converted record c carries the fields of the example e
ConvertedFrom(c, e) ==
    /\ c.id = e.question_id
    /\ c.question = e.question
    /\ c.expected_answer = e.answer
    /\ c.metadata.domain = e.domain
    /\ c.metadata.difficulty = e.difficulty
    /\ c.metadata.reasoning_steps = e.reasoning_steps
    /\ c.metadata.source = "MSCoRe"

\* C5: convert_to_maas_format keeps the id, question, answer (as
\* expected_answer), domain, difficulty and reasoning_steps of the record and
\* adds the constant source tag; batch_convert over a list of records, or over
\* the loaded records when no list is given, returns a list of the same length
\* whose i-th element is the conversion of the i-th record.
C5_ConvertKeepsOrderAndFields ==
    /\ (pc = "returned" /\ call.method = "convert_to_maas_format")
          => (~out.raised /\ ConvertedFrom(out.value, call.example))
    /\ (pc = "returned" /\ call.method = "batch_convert")
          => LET input == IF call.arg.is_none THEN loaded ELSE call.arg.examples
             IN  /\ ~out.raised
                 /\ Len(out.value) = Len(input)
                 /\ \A i \in 1..Len(input) :
                       /\ ConvertedFrom(out.value[i], input[i])
                       /\ out.value[i] = convert_to_maas_format(input[i])

\* batch_convert() with no list returned the two loaded records, which
\* differ, in their order
C5_Witness ==
    /\ pc = "returned"
    /\ call.method = "batch_convert"
    /\ call.arg.is_none
    /\ Len(loaded) = 2
    /\ loaded[1] # loaded[2]
    /\ Len(out.value) = 2
    /\ ConvertedFrom(out.value[1], loaded[1])
    /\ ConvertedFrom(out.value[2], loaded[2])

\* the outcome of the call c on an agent and an adapter just constructed
\* from the same file
FreshOutcome(c) ==
    IF c.method = "process" THEN process(NewAgent, c.query)
    ELSE IF c.method = "convert_to_maas_format"
    THEN Return(convert_to_maas_format(c.example))
    ELSE IF c.method = "batch_convert" THEN Return(batch_convert(loaded, c.arg))
    ELSE Return(analyze_question_type(c.question))

\* C6: over any sequence of process, convert_to_maas_format, batch_convert and
\* analyze_question_type calls, no call changes the agent's fields or the
\* adapter's loaded records, and a call returns what the same call returns
\* on freshly constructed objects, whatever calls preceded it.
C6_CallsAreIndependent ==
    /\ agent = NewAgent
    /\ examples = loaded
    /\ pc = "returned" => out = FreshOutcome(call)

\* batch_convert() after a call of process, on two loaded records
C6_Witness ==
    /\ pc = "returned"
    /\ previous = "process"
    /\ call.method = "batch_convert"
    /\ call.arg.is_none
    /\ Len(examples) = 2
    /\ Len(out.value) = 2

\* the date exists in the calendar of datetime
ValidDate(d) ==
    /\ d.year \in MINYEAR..MAXYEAR
    /\ d.month \in 1..12
    /\ d.day \in 1..DaysInMonth(d.year, d.month)

\* process returned for a query "<amount> <unit>(s) <keyword> <date>"
DurationCase(keyword) ==
    /\ Processed
    /\ ~out.raised
    /\ given.form = "duration"
    /\ given.keyword = keyword

\* C7: date_subtraction mirrors date_addition: with a date and a duration
\* phrase the result is the formatted base date minus the duration (stated
\* here for the unit day, where the difference is exact), and in every case
\* the result is a descriptive str.
C7_SubtractionComputes ==
    DurationCase(KwBefore) =>
        /\ out.value.operation = "date_subtraction"
        /\ ~out.value.result.none
        /\ ( /\ ValidDate(given.date)
             /\ given.unit = UnitWords[1]
             /\ ToOrdinal(given.date) - given.amount >= 1 )
           => out.value.result.s
                 = StrftimeBdY(FromOrdinal(ToOrdinal(given.date) - given.amount))

\* the date the claim gives for a base date d plus n months, and plus n years
ExpectedMonthSum(d, n) ==
    [year  |-> d.year + ((d.month + n - 1) \div 12),
     month |-> ((d.month + n - 1) % 12) + 1,
     day   |-> Min(d.day, 28)]

ExpectedYearSum(d, n) == [year |-> d.year + n, month |-> d.month, day |-> Min(d.day, 28)]

ExpectedSum(g) ==
    IF g.unit = UnitWords[2] THEN ExpectedMonthSum(g.date, g.amount)
    ELSE ExpectedYearSum(g.date, g.amount)

\* process returned for an addition of months or years to a valid date
MonthOrYearAddition ==
    /\ DurationCase(KwAfter)
    /\ given.unit \in {UnitWords[2], UnitWords[3]}
    /\ ValidDate(given.date)

ExpectedAge(birth, reference) ==
    (reference.year - birth.year)
        - (IF \/ reference.month < birth.month
              \/ (reference.month = birth.month /\ reference.day < birth.day)
           THEN 1 ELSE 0)

\* C9: age_calculation takes the first date as birth and the second as
\* reference and returns "<age> years", where age is the difference of the
\* years, less 1 exactly when (month, day) of the reference is
\* lexicographically before (month, day) of the birth; with fewer than two
\* dates it returns "Could not extract dates for age calculation".
C9_Age ==
    (Processed /\ ~out.raised /\ given.form \in {"two_dates", "one_date"}
        /\ given.keyword = KwBorn) =>
        /\ out.value.operation = "age_calculation"
        /\ (given.form = "two_dates" /\ ValidDate(given.first) /\ ValidDate(given.second))
              => out.value.result
                    = Str(IntStr(ExpectedAge(given.first, given.second)) \o StrYears)
        /\ given.form = "one_date" => out.value.result = Str(MsgNoAgeDates)

\* the birthday of the reference year is still to come, and the age is one
\* less than the difference of the years
C9_Witness ==
    /\ Processed
    /\ ~out.raised
    /\ given.form = "two_dates"
    /\ given.keyword = KwBorn
    /\ given.first = [day |-> 15, month |-> 2, year |-> 2020]
    /\ given.second = [day |-> 1, month |-> 2, year |-> 9999]
    /\ out.value.result = Str(<<"7","9","7","8">> \o StrYears)

\* one unit of an interval, when it is shown
UnitText(n, unit, shown) ==
    IF shown THEN <<NatStr(n) \o <<" ">> \o unit \o (IF n > 1 THEN <<"s">> ELSE <<>>)>>
    ELSE <<>>

\* the units of an interval in the order years, months, days: a unit that is
\* zero is left out, but days is shown when years and months are both zero
ExpectedIntervalText(years, months, days) ==
    Join(UnitText(years, UnitWords[3], years > 0)
            \o UnitText(months, UnitWords[2], months > 0)
            \o UnitText(days, UnitWords[1], days > 0 \/ (years = 0 /\ months = 0)),
         <<",", " ">>)

\* process returned for an interval word and two valid dates
IntervalCase ==
    /\ Processed
    /\ ~out.raised
    /\ given.form = "two_dates"
    /\ given.keyword = KwBetween
    /\ ValidDate(given.first)
    /\ ValidDate(given.second)

\* C10: time_interval on two dates that are D days apart gives years = D div
\* 365, months = (D mod 365) div 30 and days = (D mod 365) mod 30, so that
\* 365*years + 30*months + days = D with 0 <= days < 30 and 0 <= months <= 12;
\* the text lists years, months, days in this order, leaves out a unit that
\* is zero except that days is shown when years and months are both zero, so
\* it is never empty; and it is the same for the two dates in either order.
C10_Interval ==
    IntervalCase =>
        LET a      == ToOrdinal(given.first)
            b      == ToOrdinal(given.second)
            D      == IF a < b THEN b - a ELSE a - b
            years  == D \div 365
            months == (D % 365) \div 30
            days   == (D % 365) % 30
        IN  /\ 365 * years + 30 * months + days = D
            /\ days \in 0..29
            /\ months \in 0..12
            /\ out.value.operation = "time_interval"
            /\ out.value.result = Str(ExpectedIntervalText(years, months, days))
            /\ Len(out.value.result.s) > 0
            /\ out = process(agent, TwoDatesQuery(KwBetween, given.second, given.first))

\* the two dates are the same day and the text is "0 day"
C10_Witness ==
    /\ IntervalCase
    /\ given.first = given.second
    /\ out.value.result = Str(<<"0", " ", "d", "a", "y">>)

====
